---------------------------- MODULE Spec2Model ----------------------------
(***************************************************************************)
(* Fraud-alert recording pipeline of the AI Fraud Detection System.        *)
(*                                                                         *)
(* The model covers the SQLite store (transactions, fraud_alerts,          *)
(* blockchain_records), the request handlers that write to it              *)
(* (POST /transactions, PUT /transactions/:id, POST /blockchain/record,    *)
(* POST /fraud/alert and the three batch routes), the demo seeding script, *)
(* the ledger behind cardanoIntegration.createFraudAlertTransaction and    *)
(* the confirmation tracker.  Every `await` of a handler is a point where  *)
(* other handlers may run; every database statement is atomic.  Spec runs  *)
(* the recording handlers, POST /transactions, the seeding and the tracker *)
(* concurrently; FaultSpec is Spec with a database that can fail on the    *)
(* insert of a record; TransactionSpec runs the two /transactions routes;  *)
(* BatchSpec runs one batch request against a store earlier requests have  *)
(* filled.                                                                 *)
(***************************************************************************)
EXTENDS Integers, Sequences, FiniteSets, TLC

\* ------------------------------------------------------------- bounds
MaxTx == 1          \* transaction identifiers 1..MaxTx
MaxReqs == 2        \* HTTP requests served, each in a slot of its own
MaxSubmits == 2     \* calls of the ledger adapter's submit, in total
MaxSeedHashes == 1  \* distinct random hashes the seeding can draw
MaxSeedRuns == 2    \* runs of the seeding script

TxIds == 1..MaxTx
Reqs == 1..MaxReqs

\* ------------------------------------------------------- program values
\* SQL NULL / JavaScript undefined for a nullable column: the empty set;
\* a present value v is the singleton {v}.
NULL == {}
Some(v) == {v}

\* The retry budget of the confirmation tracker (bounded attempts, e.g. 5).
RetryBudget == 5

\* demo_data.js: only transactions above this amount get a blockchain record.
RecordAmount == 1000
\* demo_data.js: above this amount the seeded metadata flag is "Suspicious".
SuspiciousAmount == 2000
\* demo_data.js: block heights of seeded records start here.
SeedBlockBase == 1000000
\* Amounts the seeding draws (one per class the code distinguishes).
Amounts == {RecordAmount - 300, RecordAmount + 500, SuspiciousAmount + 500}
\* Hours the seeding draws (outside the 2..5 window).
Hours == {12}

\* Fraud scores are kept in tenths: 1 is 0.1.
FallbackScore == 1
\* runFraudDetection: the results the scoring oracle or its fallback yield.
FallbackPrediction ==
    [is_fraud |-> FALSE, fraud_score |-> FallbackScore,
     fraud_reason |-> "Legitimate transaction"]
FraudPrediction ==
    [is_fraud |-> TRUE, fraud_score |-> 9,
     fraud_reason |-> "Suspicious activity detected"]
LegitimatePrediction ==
    [is_fraud |-> FALSE, fraud_score |-> 2,
     fraud_reason |-> "Legitimate transaction"]
ScoreResults == {FraudPrediction, LegitimatePrediction, FallbackPrediction}

\* runFraudDetection: how the spawned scoring process ends.  It closes with
\* code 0 and a prediction line ("fraud", "legitimate"), closes with code 0
\* and no prediction that parses ("unparsable"), closes with a non-zero code
\* ("exit"), or never closes ("timeout").
OracleOutcomes == {"fraud", "legitimate", "unparsable", "exit", "timeout"}

\* runFraudDetection(transactionData): the value the promise resolves with,
\* or NULL when it never resolves: only the 'close' event resolves it, and
\* no timer is set.
runFraudDetection(oracle) ==
    CASE oracle = "fraud" -> Some(FraudPrediction)
      [] oracle = "legitimate" -> Some(LegitimatePrediction)
      [] oracle \in {"unparsable", "exit"} -> Some(FallbackPrediction)
      [] OTHER -> NULL

\* Ledger adapter errors.
NonRetriable == {"LedgerRejected", "InsufficientFunds", "WalletError"}
SubmitErrors == {"LedgerUnavailable"} \cup NonRetriable
SubmitOutcomes == {"ok"} \cup SubmitErrors

\* Hashes: the n-th transaction accepted by the ledger has hash n; the
\* seeding script draws '0x'-prefixed random hashes, here -1, -2, ...
LedgerHash(n) == n
SeedHashes == {-k : k \in 1..MaxSeedHashes}

VARIABLES
    transactions,   \* transactions table: transaction_id -> row
    alerts,         \* fraud_alerts table: sequence of rows, id = index
    records,        \* blockchain_records table: sequence of rows, id = index
    ledger,         \* accepted ledger transactions, hash = index
    calls,          \* per transaction: outcomes of the submit calls made
    req,            \* the request handlers: one slot per in-flight request
    seed,           \* the seeding script
    batch           \* the batch request handler

vars == <<transactions, alerts, records, ledger, calls, req, seed, batch>>

\* ------------------------------------------------------------ database

\* transactions schema: defaults of a freshly inserted row (is_fraud
\* DEFAULT 0, fraud_score DEFAULT 0, fraud_reason without default).
NewTransactionRow ==
    [is_fraud |-> Some(FALSE), fraud_score |-> Some(0), fraud_reason |-> NULL]

\* getTransaction that answers a row of defaults for an id that is not stored.
getTransactionDefault(t) ==
    IF t \in DOMAIN transactions THEN Some(transactions[t])
    ELSE Some(NewTransactionRow)

\* dbHelpers.getTransaction: the row, or NULL.
getTransaction(t) ==
    IF t \in DOMAIN transactions THEN Some(transactions[t]) ELSE NULL

\* createTransaction as INSERT OR REPLACE: a stored row of the same
\* transaction_id gives way to the new one.
createTransactionReplace(t) ==
    [ok |-> TRUE,
     table |-> [x \in DOMAIN transactions \cup {t} |->
                   IF x = t THEN NewTransactionRow ELSE transactions[x]]]

\* dbHelpers.createTransaction: INSERT; transaction_id is UNIQUE.
createTransaction(t) ==
    IF t \in DOMAIN transactions
    THEN [ok |-> FALSE, table |-> transactions]
    ELSE [ok |-> TRUE, table |-> transactions @@ (t :> NewTransactionRow)]

\* dbHelpers.updateTransactionFraud: UPDATE transactions SET is_fraud = ?,
\* fraud_score = ?, fraud_reason = ? WHERE transaction_id = ?.  All three
\* columns are written; an argument that is undefined is bound as NULL.
updateTransactionFraud(t, isFraud, fraudScore, fraudReason) ==
    IF t \in DOMAIN transactions
    THEN [transactions EXCEPT ![t] =
              [is_fraud |-> isFraud, fraud_score |-> fraudScore,
               fraud_reason |-> fraudReason]]
    ELSE transactions

\* transaction.is_fraud || false: the stored flag as the handlers read it.
IsFraud(transaction) == transaction.is_fraud = Some(TRUE)

\* The alertData POST /fraud/alert and the seeding script build: the ledger
\* link fields are not among its properties.
AlertData(t) ==
    [transaction_id |-> t, cardano_tx_hash |-> NULL, cardano_nft_id |-> NULL]

\* dbHelpers.createFraudAlert: INSERT; status defaults to 'active', the
\* ledger link columns take what alertData carries.
createFraudAlert(alertData) ==
    Append(alerts, [transaction_id |-> alertData.transaction_id,
                    cardano_tx_hash |-> alertData.cardano_tx_hash,
                    cardano_nft_id |-> alertData.cardano_nft_id,
                    status |-> "active"])

\* updateFraudAlertWithBlockchain: UPDATE fraud_alerts SET ... WHERE id = ?
updateFraudAlertWithBlockchain(alertId, blockchainRecord) ==
    IF alertId \in DOMAIN alerts
    THEN [alerts EXCEPT ![alertId].cardano_tx_hash = blockchainRecord.cardano_tx_hash,
                        ![alertId].cardano_nft_id = blockchainRecord.nft_id]
    ELSE alerts

StoredHashes == { records[i].cardano_tx_hash : i \in DOMAIN records }

\* createBlockchainRecord as an upsert keyed on transaction_id: a row of the
\* same transaction is replaced in place by the new one.
createBlockchainRecordUpsert(recordData) ==
    LET row == [transaction_id |-> recordData.transaction_id,
                cardano_tx_hash |-> recordData.cardano_tx_hash,
                nft_id |-> recordData.nft_id,
                metadata |-> recordData.metadata,
                block_height |-> recordData.block_height,
                confirmation_status |-> "pending"]
        same == { i \in DOMAIN records :
                    records[i].transaction_id = recordData.transaction_id }
    IN IF recordData.cardano_tx_hash = NULL
          \/ recordData.cardano_tx_hash \in StoredHashes
       THEN [ok |-> FALSE, table |-> records]
       ELSE IF same # {}
       THEN [ok |-> TRUE,
             table |-> [records EXCEPT ![CHOOSE i \in same : TRUE] = row]]
       ELSE [ok |-> TRUE, table |-> Append(records, row)]

\* createBlockchainRecord with confirmation_status among the inserted columns.
createBlockchainRecordWithStatus(recordData) ==
    IF recordData.cardano_tx_hash = NULL
          \/ recordData.cardano_tx_hash \in StoredHashes
    THEN [ok |-> FALSE, table |-> records]
    ELSE [ok |-> TRUE,
          table |-> Append(records,
              [transaction_id |-> recordData.transaction_id,
               cardano_tx_hash |-> recordData.cardano_tx_hash,
               nft_id |-> recordData.nft_id,
               metadata |-> recordData.metadata,
               block_height |-> recordData.block_height,
               confirmation_status |-> recordData.confirmation_status])]

\* createBlockchainRecord against a table without the UNIQUE constraint.
createBlockchainRecordNoUnique(recordData) ==
    [ok |-> TRUE,
     table |-> Append(records,
         [transaction_id |-> recordData.transaction_id,
          cardano_tx_hash |-> recordData.cardano_tx_hash,
          nft_id |-> recordData.nft_id,
          metadata |-> recordData.metadata,
          block_height |-> recordData.block_height,
          confirmation_status |-> "pending"])]

\* createBlockchainRecord whose column list names confirmation_status where
\* block_height belongs: the status is written, the block height is not.
createBlockchainRecordStatusForHeight(recordData) ==
    IF recordData.cardano_tx_hash = NULL
          \/ recordData.cardano_tx_hash \in StoredHashes
    THEN [ok |-> FALSE, table |-> records]
    ELSE [ok |-> TRUE,
          table |-> Append(records,
              [transaction_id |-> recordData.transaction_id,
               cardano_tx_hash |-> recordData.cardano_tx_hash,
               nft_id |-> recordData.nft_id,
               metadata |-> recordData.metadata,
               block_height |-> NULL,
               confirmation_status |-> recordData.confirmation_status])]

\* createBlockchainRecord as INSERT OR REPLACE: the row that holds the hash
\* already is deleted and the new row takes its place at the end.
createBlockchainRecordReplace(recordData) ==
    LET Keep(x) == x.cardano_tx_hash # recordData.cardano_tx_hash
    IN IF recordData.cardano_tx_hash = NULL
       THEN [ok |-> FALSE, table |-> records]
       ELSE [ok |-> TRUE,
             table |-> Append(SelectSeq(records, Keep),
                 [transaction_id |-> recordData.transaction_id,
                  cardano_tx_hash |-> recordData.cardano_tx_hash,
                  nft_id |-> recordData.nft_id,
                  metadata |-> recordData.metadata,
                  block_height |-> recordData.block_height,
                  confirmation_status |-> "pending"])]

\* dbHelpers.createBlockchainRecord: INSERT of five columns;
\* confirmation_status is not among them and takes the schema default
\* 'pending'; cardano_tx_hash is UNIQUE NOT NULL.
createBlockchainRecord(recordData) ==
    IF recordData.cardano_tx_hash = NULL
          \/ recordData.cardano_tx_hash \in StoredHashes
    THEN [ok |-> FALSE, table |-> records]
    ELSE [ok |-> TRUE,
          table |-> Append(records,
              [transaction_id |-> recordData.transaction_id,
               cardano_tx_hash |-> recordData.cardano_tx_hash,
               nft_id |-> recordData.nft_id,
               metadata |-> recordData.metadata,
               block_height |-> recordData.block_height,
               confirmation_status |-> "pending"])]

\* -------------------------------------------------------------- ledger

\* Metadata payload: the transaction reference and the normalized flag.
Metadata(t, isFraud) ==
    [transactionID |-> t,
     flag |-> IF isFraud THEN "Suspicious" ELSE "Legitimate"]

\* cardanoIntegration.createFraudAlertTransaction on success: the record
\* describing the accepted ledger transaction (hash set, no block height).
BlockchainRecord(t, fraudPrediction, n) ==
    [transaction_id |-> t,
     cardano_tx_hash |-> Some(LedgerHash(n)),
     nft_id |-> NULL,
     metadata |-> Metadata(t, fraudPrediction.is_fraud),
     block_height |-> NULL,
     confirmation_status |-> "pending"]

NoCalls == [n |-> 0, unavailable |-> 0]
TotalCalls(c, S) ==
    LET RECURSIVE Sum(_)
        Sum(T) == IF T = {} THEN 0
                  ELSE LET x == CHOOSE y \in T : TRUE
                       IN c[x].n + Sum(T \ {x})
    IN Sum(S)

\* One more submit call for transaction t with the given outcome.
Called(t, outcome) ==
    [calls EXCEPT ![t] =
        [n |-> @.n + 1,
         unavailable |-> @.unavailable + (IF outcome = "LedgerUnavailable" THEN 1 ELSE 0)]]

\* ------------------------------------------------------------ requests

\* PUT /transactions/:transactionId: the fields of allowedUpdates, each
\* undefined (NULL) or a value.
NoUpdates == [is_fraud |-> NULL, fraud_score |-> NULL, fraud_reason |-> NULL]

IdleReq ==
    [kind |-> "none", pc |-> "idle", tx |-> 1, is_fraud |-> FALSE,
     outcome |-> "none", record |-> NULL, alert |-> NULL, status |-> 0,
     existing |-> {}, overlap |-> {}, saved |-> NULL, oracle |-> "none",
     updates |-> NoUpdates]

\* Slot r is unused; slots are taken in order.
Free(r) == req[r].pc = "idle" /\ \A q \in Reqs : q < r => req[q].pc # "idle"
Active(r) == req[r].pc \notin {"idle", "done"}

\* A record of transaction t that is not failed.
LiveRecords(t) ==
    { i \in DOMAIN records :
        records[i].transaction_id = t
        /\ records[i].confirmation_status \in {"pending", "confirmed"} }

\* The statuses of the non-failed records of transaction t.
LiveStatuses(t) == { records[i].confirmation_status : i \in LiveRecords(t) }

\* The recordAlert requests in flight for transaction t.
Recording(t) ==
    { q \in Reqs : Active(q) /\ req[q].kind \in {"record", "alert"} /\ req[q].tx = t }

\* The two routes that record one transaction on the ledger.
RecordAlertKind(kind) == kind \in {"record", "alert"}

Respond(r, code) == [req EXCEPT ![r].pc = "done", ![r].status = code]

TypeOK ==
    /\ DOMAIN transactions \subseteq TxIds
    /\ \A i \in DOMAIN records : records[i].confirmation_status \in {"pending", "confirmed", "failed"}
    /\ \A r \in Reqs : req[r].oracle \in {"none"} \cup OracleOutcomes
    /\ \A o \in OracleOutcomes : runFraudDetection(o) \subseteq ScoreResults
    /\ \A r \in Reqs : req[r].pc \in {"idle", "done", "check", "create", "score", "update",
                                       "get", "alert", "submit", "link", "save"}



Val(s) == CHOOSE v \in s : TRUE

\* cardanoIntegration.createFraudAlertTransaction(transaction, fraudPrediction):
\* builds the metadata and submits it to the ledger.  `outcome` is what the
\* network answers: on "ok" the ledger accepts the transaction and the record
\* describing it is returned, otherwise the call throws the named error.
createFraudAlertTransaction(t, fraudPrediction, outcome) ==
    IF outcome = "ok"
    THEN [ledger |-> Append(ledger, Metadata(t, fraudPrediction.is_fraud)),
          record |-> Some(BlockchainRecord(t, fraudPrediction, Len(ledger) + 1))]
    ELSE [ledger |-> ledger, record |-> NULL]

\* A handler starts in slot r.
Begin(r, new) == [req EXCEPT ![r] = new]

\* ------------------------------------------------- POST /transactions

StartTransaction(r, t, valid) ==
    /\ Free(r)
    /\ req' = Begin(r, IF valid
                       THEN [IdleReq EXCEPT !.kind = "tx", !.pc = "check", !.tx = t]
                       ELSE [IdleReq EXCEPT !.kind = "tx", !.pc = "done",
                                            !.status = 400])
    /\ UNCHANGED <<transactions, alerts, records, ledger, calls, seed, batch>>

TransactionCheck(r) ==
    /\ req[r].kind = "tx" /\ req[r].pc = "check"
    /\ req' = IF getTransaction(req[r].tx) # NULL
              THEN Respond(r, 409)
              ELSE [req EXCEPT ![r].pc = "create"]
    /\ UNCHANGED <<transactions, alerts, records, ledger, calls, seed, batch>>

TransactionCreate(r) ==
    /\ req[r].kind = "tx" /\ req[r].pc = "create"
    /\ LET res == createTransaction(req[r].tx)
       IN /\ transactions' = res.table
          /\ req' = IF res.ok THEN [req EXCEPT ![r].pc = "score"]
                    ELSE Respond(r, 500)
    /\ UNCHANGED <<alerts, records, ledger, calls, seed, batch>>

\* await runFraudDetection(transactionData): the scoring process ends in one
\* of its ways.  When it never closes the handler stays at this await.
TransactionScore(r) ==
    /\ req[r].kind = "tx" /\ req[r].pc = "score" /\ req[r].oracle = "none"
    /\ \E oracle \in OracleOutcomes :
          req' = [req EXCEPT ![r].oracle = oracle,
                             ![r].pc = IF runFraudDetection(oracle) = NULL
                                       THEN "score" ELSE "update"]
    /\ UNCHANGED <<transactions, alerts, records, ledger, calls, seed, batch>>

\* updateTransactionFraud stores what runFraudDetection resolved with.
TransactionUpdate(r) ==
    /\ req[r].kind = "tx" /\ req[r].pc = "update"
    /\ LET fraudDetection == Val(runFraudDetection(req[r].oracle))
       IN /\ transactions' = updateTransactionFraud(req[r].tx,
                                 Some(fraudDetection.is_fraud),
                                 Some(fraudDetection.fraud_score),
                                 Some(fraudDetection.fraud_reason))
          /\ req' = Respond(r, 201)
    /\ UNCHANGED <<alerts, records, ledger, calls, seed, batch>>

\* ---------------------------------------- PUT /transactions/:transactionId

\* The request bodies: each of is_fraud, fraud_score, fraud_reason is absent
\* or carries a value.
UpdateData ==
    [is_fraud : {NULL, Some(TRUE), Some(FALSE)},
     fraud_score : {NULL, Some(5)},
     fraud_reason : {NULL, Some("Manual review")}]

\* The loop over allowedUpdates: updates takes the fields of updateData
\* that are not undefined.
Updates(updateData) ==
    [field \in {"is_fraud", "fraud_score", "fraud_reason"} |-> updateData[field]]

\* Object.keys(updates)
Keys(updates) == { field \in DOMAIN updates : updates[field] # NULL }

StartPut(r, t, updateData) ==
    /\ Free(r)
    /\ req' = Begin(r, [IdleReq EXCEPT !.kind = "put", !.pc = "get", !.tx = t,
                                       !.updates = updateData])
    /\ UNCHANGED <<transactions, alerts, records, ledger, calls, seed, batch>>

\* await dbHelpers.getTransaction(transactionId); 404 when there is no row,
\* 400 when the body names none of the allowed fields.
PutGet(r) ==
    /\ req[r].kind = "put" /\ req[r].pc = "get"
    /\ LET updates == Updates(req[r].updates)
       IN req' = IF getTransaction(req[r].tx) = NULL THEN Respond(r, 404)
                 ELSE IF Keys(updates) = {} THEN Respond(r, 400)
                 ELSE [req EXCEPT ![r].pc = "update"]
    /\ UNCHANGED <<transactions, alerts, records, ledger, calls, seed, batch>>

\* await dbHelpers.updateTransactionFraud(transactionId, updates.is_fraud,
\* updates.fraud_score, updates.fraud_reason); res.json(...)
PutUpdate(r) ==
    /\ req[r].kind = "put" /\ req[r].pc = "update"
    /\ LET updates == Updates(req[r].updates)
       IN transactions' = updateTransactionFraud(req[r].tx, updates.is_fraud,
                              updates.fraud_score, updates.fraud_reason)
    /\ req' = Respond(r, 200)
    /\ UNCHANGED <<alerts, records, ledger, calls, seed, batch>>

\* --------------------------------------------- POST /blockchain/record

StartRecord(r, t, valid) ==
    /\ Free(r)
    /\ req' = Begin(r, IF valid
                       THEN [IdleReq EXCEPT !.kind = "record", !.pc = "get", !.tx = t,
                                            !.existing = LiveStatuses(t),
                                            !.overlap = Recording(t) \ {r}]
                       ELSE [IdleReq EXCEPT !.kind = "record", !.pc = "done",
                                            !.status = 400])
    /\ UNCHANGED <<transactions, alerts, records, ledger, calls, seed, batch>>

RecordGet(r) ==
    /\ req[r].kind = "record" /\ req[r].pc = "get"
    /\ LET transaction == getTransaction(req[r].tx)
       IN req' = IF transaction = NULL
                 THEN Respond(r, 404)
                 ELSE [req EXCEPT ![r].pc = "submit",
                                  ![r].is_fraud = IsFraud(Val(transaction))]
    /\ UNCHANGED <<transactions, alerts, records, ledger, calls, seed, batch>>

RecordSubmit(r) ==
    /\ req[r].kind = "record" /\ req[r].pc = "submit"
    /\ TotalCalls(calls, TxIds) < MaxSubmits
    /\ \E outcome \in SubmitOutcomes :
          LET fraudPrediction == [is_fraud |-> req[r].is_fraud]
              res == createFraudAlertTransaction(req[r].tx, fraudPrediction, outcome)
          IN /\ ledger' = res.ledger
             /\ calls' = Called(req[r].tx, outcome)
             /\ req' = IF outcome = "ok"
                       THEN [req EXCEPT ![r].pc = "save", ![r].outcome = outcome,
                                        ![r].record = res.record]
                       ELSE [Respond(r, 500) EXCEPT ![r].outcome = outcome]
    /\ UNCHANGED <<transactions, alerts, records, seed, batch>>

\* RecordSave that answers 201 without the insert having happened.
RecordSaveNotStored(r) ==
    /\ req[r].kind = "record" /\ req[r].pc = "save"
    /\ req' = Respond(r, 201)
    /\ UNCHANGED <<transactions, alerts, records, ledger, calls, seed, batch>>

RecordSave(r) ==
    /\ req[r].kind = "record" /\ req[r].pc = "save"
    /\ LET res == createBlockchainRecord(Val(req[r].record))
       IN /\ records' = res.table
          /\ req' = IF res.ok
                    THEN [Respond(r, 201) EXCEPT ![r].saved = Some(Len(res.table))]
                    ELSE Respond(r, 500)
    /\ UNCHANGED <<transactions, alerts, ledger, calls, seed, batch>>

\* ---------------------------------------------------- POST /fraud/alert

StartAlert(r, t, valid) ==
    /\ Free(r)
    /\ req' = Begin(r, IF valid
                       THEN [IdleReq EXCEPT !.kind = "alert", !.pc = "get", !.tx = t,
                                            !.existing = LiveStatuses(t),
                                            !.overlap = Recording(t) \ {r}]
                       ELSE [IdleReq EXCEPT !.kind = "alert", !.pc = "done",
                                            !.status = 400])
    /\ UNCHANGED <<transactions, alerts, records, ledger, calls, seed, batch>>

AlertGet(r) ==
    /\ req[r].kind = "alert" /\ req[r].pc = "get"
    /\ LET transaction == getTransaction(req[r].tx)
       IN req' = IF transaction = NULL
                 THEN Respond(r, 404)
                 ELSE [req EXCEPT ![r].pc = "alert",
                                  ![r].is_fraud = IsFraud(Val(transaction))]
    /\ UNCHANGED <<transactions, alerts, records, ledger, calls, seed, batch>>

AlertCreate(r) ==
    /\ req[r].kind = "alert" /\ req[r].pc = "alert"
    /\ alerts' = createFraudAlert(AlertData(req[r].tx))
    /\ req' = [req EXCEPT ![r].pc = "submit", ![r].alert = Some(Len(alerts) + 1)]
    /\ UNCHANGED <<transactions, records, ledger, calls, seed, batch>>

AlertSubmit(r) ==
    /\ req[r].kind = "alert" /\ req[r].pc = "submit"
    /\ TotalCalls(calls, TxIds) < MaxSubmits
    /\ \E outcome \in SubmitOutcomes :
          LET fraudPrediction == [is_fraud |-> TRUE]
              res == createFraudAlertTransaction(req[r].tx, fraudPrediction, outcome)
          IN /\ ledger' = res.ledger
             /\ calls' = Called(req[r].tx, outcome)
             /\ req' = IF outcome = "ok"
                       THEN [req EXCEPT ![r].pc = "link", ![r].outcome = outcome,
                                        ![r].record = res.record]
                       ELSE [Respond(r, 500) EXCEPT ![r].outcome = outcome]
    /\ UNCHANGED <<transactions, alerts, records, seed, batch>>

AlertLink(r) ==
    /\ req[r].kind = "alert" /\ req[r].pc = "link"
    /\ alerts' = updateFraudAlertWithBlockchain(Val(req[r].alert), Val(req[r].record))
    /\ req' = [req EXCEPT ![r].pc = "save"]
    /\ UNCHANGED <<transactions, records, ledger, calls, seed, batch>>

AlertSave(r) ==
    /\ req[r].kind = "alert" /\ req[r].pc = "save"
    /\ LET res == createBlockchainRecord(Val(req[r].record))
       IN /\ records' = res.table
          /\ req' = IF res.ok
                    THEN [Respond(r, 201) EXCEPT ![r].saved = Some(Len(res.table))]
                    ELSE Respond(r, 500)
    /\ UNCHANGED <<transactions, alerts, ledger, calls, seed, batch>>

\* ------------------------------------------------------- database errors

\* await dbHelpers.createBlockchainRecord(blockchainRecord) in one of the two
\* handlers, when the database reports an error for the INSERT (the
\* `if (err) reject(err)` of the helper): no row is stored, the handler's
\* catch answers 500.
SaveRejected(r) ==
    /\ RecordAlertKind(req[r].kind) /\ req[r].pc = "save"
    /\ req' = Respond(r, 500)
    /\ UNCHANGED <<transactions, alerts, records, ledger, calls, seed, batch>>

\* -------------------------------------------------------- seedDatabase

IdleSeed ==
    [pc |-> "idle", runs |-> 0, tx |-> 1, amount |-> RecordAmount, hour |-> 12,
     hash |-> NULL, confirmation_status |-> "pending", inserted |-> "none"]

\* seedDatabase: isFraud of a generated transaction (the same condition
\* generateFraudAlerts uses); the generated category is not online_shopping.
SeedIsFraud(s) == s.amount > RecordAmount \/ (s.hour >= 2 /\ s.hour <= 5)

\* seedDatabase: fraudReason of a generated transaction.
SeedFraudReason(s) ==
    IF ~SeedIsFraud(s) THEN "Legitimate transaction"
    ELSE IF s.amount > SuspiciousAmount THEN "High amount transaction"
    ELSE IF s.hour >= 2 /\ s.hour <= 5 THEN "Unusual time"
    ELSE "Suspicious pattern"

\* generateDemoTransactions: one transaction with a random id, amount, hour.
SeedStart ==
    /\ seed.pc = "idle"
    /\ seed.runs < MaxSeedRuns
    /\ \E t \in TxIds, a \in Amounts, h \in Hours :
          seed' = [IdleSeed EXCEPT !.pc = "transaction", !.runs = seed.runs + 1,
                                   !.tx = t, !.amount = a, !.hour = h]
    /\ UNCHANGED <<transactions, alerts, records, ledger, calls, req, batch>>

\* createTransaction in a try/catch that drops the error.
SeedTransaction ==
    /\ seed.pc = "transaction"
    /\ transactions' = createTransaction(seed.tx).table
    /\ seed' = [seed EXCEPT !.pc = "fraud"]
    /\ UNCHANGED <<alerts, records, ledger, calls, req, batch>>

SeedFraud ==
    /\ seed.pc = "fraud"
    /\ transactions' = updateTransactionFraud(seed.tx, Some(SeedIsFraud(seed)),
                            Some(IF SeedIsFraud(seed) THEN 9 ELSE 2),
                            Some(SeedFraudReason(seed)))
    /\ seed' = [seed EXCEPT !.pc = "alert"]
    /\ UNCHANGED <<alerts, records, ledger, calls, req, batch>>

\* createFraudAlert for the generated alert, if one was generated; the
\* record generateBlockchainRecords drew is the next thing to insert.
SeedAlert ==
    /\ seed.pc = "alert"
    /\ alerts' = IF SeedIsFraud(seed) THEN createFraudAlert(AlertData(seed.tx))
                 ELSE alerts
    /\ \E h \in SeedHashes, st \in {"confirmed", "pending"} :
          seed' = [seed EXCEPT !.pc = "record", !.hash = Some(h),
                               !.confirmation_status = st]
    /\ UNCHANGED <<transactions, records, ledger, calls, req, batch>>

\* generateBlockchainRecords: the record of a generated transaction.
SeedRecordData(s) ==
    [transaction_id |-> s.tx,
     cardano_tx_hash |-> s.hash,
     nft_id |-> NULL,
     metadata |-> Metadata(s.tx, s.amount > SuspiciousAmount),
     block_height |-> Some(SeedBlockBase),
     confirmation_status |-> s.confirmation_status]

\* createBlockchainRecord for the generated record (amount > 1000 only), in
\* a try/catch that drops the error.  The script ends; what it generated
\* for the record and how the insert ended stay visible in its log.
SeedRecord ==
    /\ seed.pc = "record"
    /\ IF seed.amount > RecordAmount
       THEN LET res == createBlockchainRecord(SeedRecordData(seed))
            IN /\ records' = res.table
               /\ seed' = [IdleSeed EXCEPT !.runs = seed.runs, !.hash = seed.hash,
                               !.confirmation_status = seed.confirmation_status,
                               !.inserted = IF res.ok THEN "ok" ELSE "error"]
       ELSE /\ records' = records
            /\ seed' = [IdleSeed EXCEPT !.runs = seed.runs]
    /\ UNCHANGED <<transactions, alerts, ledger, calls, req, batch>>

\* ------------------------------------------------ confirmation tracker

\* The block the ledger includes its n-th transaction in.
BlockHeightOf(n) == n

\* One sweep step: queryStatus of a pending record's hash answers
\* confirmed; status and block height are set in one statement.
TrackerConfirm(i) ==
    /\ i \in DOMAIN records
    /\ records[i].confirmation_status = "pending"
    /\ \E n \in DOMAIN ledger :
          /\ records[i].cardano_tx_hash = Some(LedgerHash(n))
          /\ records' = [records EXCEPT ![i].confirmation_status = "confirmed",
                                        ![i].block_height = Some(BlockHeightOf(n))]
    /\ UNCHANGED <<transactions, alerts, ledger, calls, req, seed, batch>>

\* ------------------------------------------------------ batch handlers
\* POST /blockchain/batch-record, POST /fraud/alerts/batch and
\* POST /transactions/batch: one loop over the array of the request body,
\* each item in a try/catch of its own, the whole handler in an outer one.

MaxItems == 2       \* items of a batch request

BatchKinds == {"batch-record", "alerts-batch", "transactions-batch"}

\* The hashes a client can write into the cardano_tx_hash of an item of
\* alerts: strings of its own choosing, as the seeding's are.
ClientHashes == SeedHashes

\* An item of the array: null (NULL), or an object with its transaction_id;
\* complete says that the fields the handler or the table requires are there
\* (requiredFields for a transaction, the NOT NULL columns for an alert);
\* cardano_tx_hash is the property of that name, if the client sent one.
\* An item of transaction_ids is the identifier itself, or null.
Items(kind) ==
    {NULL} \cup
    { Some([transaction_id |-> t, complete |-> c, cardano_tx_hash |-> h]) :
        t \in TxIds,
        c \in IF kind = "batch-record" THEN {TRUE} ELSE BOOLEAN,
        h \in IF kind = "alerts-batch"
               THEN {NULL} \cup { Some(x) : x \in ClientHashes } ELSE {NULL} }

\* The arrays of at most MaxItems items.
ItemArrays(kind) == UNION { [1..n -> Items(kind)] : n \in 0..MaxItems }

\* JSON values of a response body.
Number(n) == [type |-> "number", value |-> n]
Array(a) == [type |-> "array", value |-> a]
Boolean(b) == [type |-> "boolean", value |-> b]
String(str) == [type |-> "string", value |-> str]

\* A JavaScript object literal { k1: v1, k2: v2, ... }: of the properties
\* written with the same key the last one stands.
ObjectLiteral(pairs) ==
    LET keys == { pairs[i][1] : i \in DOMAIN pairs }
        Last(k) == CHOOSE i \in DOMAIN pairs :
                      /\ pairs[i][1] = k
                      /\ \A j \in DOMAIN pairs : pairs[j][1] = k => j <= i
    IN [k \in keys |-> pairs[Last(k)][2]]

IdleBatch ==
    [kind |-> "none", pc |-> "idle", items |-> << >>, i |-> 0,
     is_fraud |-> FALSE, alert |-> NULL, record |-> NULL, oracle |-> "none",
     results |-> << >>, errors |-> << >>, status |-> 0,
     body |-> ObjectLiteral(<< >>)]

\* item.transaction_id of an item that is not null.
IdOf(item) == IF item = NULL THEN NULL ELSE Some(Val(item).transaction_id)

\* results.push({...}) and errors.push({...}), then on to the next item;
\* `item` is the position of the item the entry is about.
PushResult(b) ==
    [b EXCEPT !.results = Append(@, [item |-> b.i,
                                     transaction_id |-> IdOf(b.items[b.i]),
                                     status |-> "success"]),
              !.i = @ + 1]
PushError(b, message) ==
    [b EXCEPT !.errors = Append(@, [item |-> b.i,
                                    transaction_id |-> IdOf(b.items[b.i]),
                                    error |-> message]),
              !.i = @ + 1]

\* res.status(201).json({ success, processed, errors, results, errors, message })
BatchResponse(b) ==
    [b EXCEPT !.pc = "done", !.status = 201,
              !.body = ObjectLiteral(<< <<"success", Boolean(TRUE)>>,
                                        <<"processed", Number(Len(b.results))>>,
                                        <<"errors", Number(Len(b.errors))>>,
                                        <<"results", Array(b.results)>>,
                                        <<"errors", Array(b.errors)>> >>)]

\* The outer catch: res.status(500).json({ error, message }).
BatchFailure(b) ==
    [b EXCEPT !.pc = "done", !.status = 500,
              !.body = ObjectLiteral(<< <<"error", String("Failed to process batch")>>,
                                        <<"message", String("TypeError")>> >>)]

\* The loop from item b.i up to its next await.  Reading a property of a
\* null item throws a TypeError inside the item's try; its catch reads
\* item.transaction_id again to build the errors entry, throws in turn, and
\* the outer catch ends the handler.  Past the last item the response is sent.
RECURSIVE Enter(_)
Enter(b) ==
    LET fresh == [b EXCEPT !.is_fraud = FALSE, !.alert = NULL, !.record = NULL,
                           !.oracle = "none"]
    IN IF b.i > Len(b.items) THEN BatchResponse(fresh)
       ELSE LET item == b.items[b.i]
            IN CASE b.kind = "batch-record" -> [fresh EXCEPT !.pc = "get"]
                 [] b.kind = "alerts-batch" ->
                       IF item = NULL THEN BatchFailure(fresh)
                       ELSE [fresh EXCEPT !.pc = "get"]
                 [] OTHER ->
                       IF item = NULL THEN BatchFailure(fresh)
                       ELSE IF ~Val(item).complete
                       THEN Enter(PushError(fresh, "Missing required fields"))
                       ELSE [fresh EXCEPT !.pc = "check"]

\* The transaction_id of the item being processed.
BatchTx == Val(batch.items[batch.i]).transaction_id

\* The request arrives; a body whose list is not an array is answered 400.
StartBatch(kind, items, valid) ==
    /\ batch.pc = "idle"
    /\ batch' = IF valid
                THEN Enter([IdleBatch EXCEPT !.kind = kind, !.items = items, !.i = 1])
                ELSE [IdleBatch EXCEPT !.kind = kind, !.pc = "done", !.status = 400,
                         !.body = ObjectLiteral(<< <<"error", String("must be an array")>> >>)]
    /\ UNCHANGED <<transactions, alerts, records, ledger, calls, req, seed>>

\* batch-record, alerts/batch: await dbHelpers.getTransaction(...)
BatchGet ==
    /\ batch.kind \in {"batch-record", "alerts-batch"} /\ batch.pc = "get"
    /\ LET item == batch.items[batch.i]
           transaction == IF item = NULL THEN NULL ELSE getTransaction(BatchTx)
       IN batch' = IF transaction = NULL
                   THEN Enter(PushError(batch, "Transaction not found"))
                   ELSE [batch EXCEPT !.is_fraud = IsFraud(Val(transaction)),
                                      !.pc = IF batch.kind = "alerts-batch"
                                             THEN "alert" ELSE "submit"]
    /\ UNCHANGED <<transactions, alerts, records, ledger, calls, req, seed>>

\* alerts/batch: await dbHelpers.createFraudAlert(alertData); the insert is
\* rejected when a NOT NULL column is missing from alertData.
BatchAlert ==
    /\ batch.kind = "alerts-batch" /\ batch.pc = "alert"
    /\ IF Val(batch.items[batch.i]).complete
       THEN /\ alerts' = createFraudAlert(
                           [transaction_id |-> BatchTx,
                            cardano_tx_hash |-> Val(batch.items[batch.i]).cardano_tx_hash,
                            cardano_nft_id |-> NULL])
            /\ batch' = [batch EXCEPT !.pc = "submit", !.alert = Some(Len(alerts) + 1)]
       ELSE /\ alerts' = alerts
            /\ batch' = Enter(PushError(batch, "SQLITE_CONSTRAINT"))
    /\ UNCHANGED <<transactions, records, ledger, calls, req, seed>>

\* await cardanoIntegration.createFraudAlertTransaction(transaction, fraudPrediction)
BatchSubmit ==
    /\ batch.kind \in {"batch-record", "alerts-batch"} /\ batch.pc = "submit"
    /\ TotalCalls(calls, TxIds) < MaxSubmits
    /\ \E outcome \in SubmitOutcomes :
          LET fraudPrediction == [is_fraud |-> IF batch.kind = "alerts-batch"
                                               THEN TRUE ELSE batch.is_fraud]
              res == createFraudAlertTransaction(BatchTx, fraudPrediction, outcome)
          IN /\ ledger' = res.ledger
             /\ calls' = Called(BatchTx, outcome)
             /\ batch' = IF outcome = "ok"
                         THEN [batch EXCEPT !.record = res.record,
                                            !.pc = IF batch.kind = "alerts-batch"
                                                   THEN "link" ELSE "save"]
                         ELSE Enter(PushError(batch, outcome))
    /\ UNCHANGED <<transactions, alerts, records, req, seed>>

\* alerts/batch: await updateFraudAlertWithBlockchain(alert.id, blockchainRecord)
BatchLink ==
    /\ batch.kind = "alerts-batch" /\ batch.pc = "link"
    /\ alerts' = updateFraudAlertWithBlockchain(Val(batch.alert), Val(batch.record))
    /\ batch' = [batch EXCEPT !.pc = "save"]
    /\ UNCHANGED <<transactions, records, ledger, calls, req, seed>>

\* await dbHelpers.createBlockchainRecord(blockchainRecord); results.push
BatchSave ==
    /\ batch.kind \in {"batch-record", "alerts-batch"} /\ batch.pc = "save"
    /\ LET res == createBlockchainRecord(Val(batch.record))
       IN /\ records' = res.table
          /\ batch' = IF res.ok THEN Enter(PushResult(batch))
                      ELSE Enter(PushError(batch, "SQLITE_CONSTRAINT"))
    /\ UNCHANGED <<transactions, alerts, ledger, calls, req, seed>>

\* transactions/batch: await dbHelpers.getTransaction(transactionData.transaction_id)
BatchCheck ==
    /\ batch.kind = "transactions-batch" /\ batch.pc = "check"
    /\ batch' = IF getTransaction(BatchTx) # NULL
                THEN Enter(PushError(batch, "Transaction already exists"))
                ELSE [batch EXCEPT !.pc = "create"]
    /\ UNCHANGED <<transactions, alerts, records, ledger, calls, req, seed>>

\* transactions/batch: await dbHelpers.createTransaction(transactionData)
BatchCreate ==
    /\ batch.kind = "transactions-batch" /\ batch.pc = "create"
    /\ LET res == createTransaction(BatchTx)
       IN /\ transactions' = res.table
          /\ batch' = IF res.ok THEN [batch EXCEPT !.pc = "score"]
                      ELSE Enter(PushError(batch, "SQLITE_CONSTRAINT"))
    /\ UNCHANGED <<alerts, records, ledger, calls, req, seed>>

\* transactions/batch: await runFraudDetection(transactionData)
BatchScore ==
    /\ batch.kind = "transactions-batch" /\ batch.pc = "score"
    /\ batch.oracle = "none"
    /\ \E oracle \in OracleOutcomes :
          batch' = [batch EXCEPT !.oracle = oracle,
                                 !.pc = IF runFraudDetection(oracle) = NULL
                                        THEN "score" ELSE "update"]
    /\ UNCHANGED <<transactions, alerts, records, ledger, calls, req, seed>>

\* transactions/batch: await dbHelpers.updateTransactionFraud(...); results.push
BatchUpdate ==
    /\ batch.kind = "transactions-batch" /\ batch.pc = "update"
    /\ LET fraudDetection == Val(runFraudDetection(batch.oracle))
       IN transactions' = updateTransactionFraud(BatchTx,
                              Some(fraudDetection.is_fraud),
                              Some(fraudDetection.fraud_score),
                              Some(fraudDetection.fraud_reason))
    /\ batch' = Enter(PushResult(batch))
    /\ UNCHANGED <<alerts, records, ledger, calls, req, seed>>

\* ---------------------------------------------------------------- spec

Init ==
    /\ transactions = << >>
    /\ alerts = << >>
    /\ records = << >>
    /\ ledger = << >>
    /\ calls = [t \in TxIds |-> NoCalls]
    /\ req = [r \in Reqs |-> IdleReq]
    /\ seed = IdleSeed
    /\ batch = IdleBatch

Next ==
    \/ \E r \in Reqs, t \in TxIds, valid \in BOOLEAN : StartTransaction(r, t, valid)
    \/ \E r \in Reqs : TransactionCheck(r)
    \/ \E r \in Reqs : TransactionCreate(r)
    \/ \E r \in Reqs : TransactionScore(r)
    \/ \E r \in Reqs : TransactionUpdate(r)
    \/ \E r \in Reqs, t \in TxIds, valid \in BOOLEAN : StartRecord(r, t, valid)
    \/ \E r \in Reqs : RecordGet(r)
    \/ \E r \in Reqs : RecordSubmit(r)
    \/ \E r \in Reqs : RecordSave(r)
    \/ \E r \in Reqs, t \in TxIds, valid \in BOOLEAN : StartAlert(r, t, valid)
    \/ \E r \in Reqs : AlertGet(r)
    \/ \E r \in Reqs : AlertCreate(r)
    \/ \E r \in Reqs : AlertSubmit(r)
    \/ \E r \in Reqs : AlertLink(r)
    \/ \E r \in Reqs : AlertSave(r)
    \/ SeedStart
    \/ SeedTransaction
    \/ SeedFraud
    \/ SeedAlert
    \/ SeedRecord
    \/ \E i \in 1..(MaxSeedRuns + MaxSubmits) : TrackerConfirm(i)

Spec == Init /\ [][Next]_vars

\* The row updateTransactionFraud leaves when it stores prediction p.
ScoredRow(p) ==
    [is_fraud |-> Some(p.is_fraud), fraud_score |-> Some(p.fraud_score),
     fraud_reason |-> Some(p.fraud_reason)]

\* The transactions table as earlier requests can have left it: any of the
\* transactions stored, each as inserted or with a stored verdict.
StoredTransactions ==
    UNION { [S -> {NewTransactionRow} \cup { ScoredRow(p) : p \in ScoreResults }] :
              S \in SUBSET TxIds }

\* One batch request against such a store.
BatchInit ==
    /\ transactions \in StoredTransactions
    /\ alerts = << >>
    /\ records = << >>
    /\ ledger = << >>
    /\ calls = [t \in TxIds |-> NoCalls]
    /\ req = [r \in Reqs |-> IdleReq]
    /\ seed = IdleSeed
    /\ batch = IdleBatch

BatchNext ==
    \/ \E kind \in BatchKinds, valid \in BOOLEAN :
          \E items \in ItemArrays(kind) : StartBatch(kind, items, valid)
    \/ BatchGet
    \/ BatchAlert
    \/ BatchSubmit
    \/ BatchLink
    \/ BatchSave
    \/ BatchCheck
    \/ BatchCreate
    \/ BatchScore
    \/ BatchUpdate

BatchSpec == BatchInit /\ [][BatchNext]_vars

\* The program with a database that can fail on the insert of a record.
FaultNext ==
    \/ Next
    \/ \E r \in Reqs : SaveRejected(r)

FaultSpec == Init /\ [][FaultNext]_vars

\* The routes of /transactions for single transactions, on their own: create
\* and score (POST), update (PUT).
TransactionNext ==
    \/ \E r \in Reqs, t \in TxIds, valid \in BOOLEAN : StartTransaction(r, t, valid)
    \/ \E r \in Reqs : TransactionCheck(r)
    \/ \E r \in Reqs : TransactionCreate(r)
    \/ \E r \in Reqs : TransactionScore(r)
    \/ \E r \in Reqs : TransactionUpdate(r)
    \/ \E r \in Reqs, t \in TxIds, updateData \in UpdateData : StartPut(r, t, updateData)
    \/ \E r \in Reqs : PutGet(r)
    \/ \E r \in Reqs : PutUpdate(r)

TransactionSpec == Init /\ [][TransactionNext]_vars

\* -------------------------------------------------------------- claims

Done(r) == req[r].pc = "done"
\* Request r is a recordAlert call (POST /blockchain/record, POST /fraud/alert).
RecordAlert(r) == req[r].kind \in {"record", "alert"}
\* Request r got past validation and found its transaction.
Found(r) == req[r].status \notin {400, 404}
\* The prediction request r hands to the recorder says fraud.
Eligible(r) == req[r].kind = "alert" \/ req[r].is_fraud
\* A non-failed record of the transaction existed when request r arrived.
HadRecord(r) == req[r].existing # {}
\* Request r called the ledger adapter's submit.
Submitted(r) == req[r].outcome # "none"
\* The blockchain_records row request r inserted, if any.
SavedRow(r) == records[Val(req[r].saved)]

\* C1: two recordAlert calls that ran concurrently for the same eligible
\* transaction (no record existed before, the ledger accepted what it was
\* sent) end with exactly one ledger submission and exactly one record in
\* non-failed status between them.
C1_OneSubmissionWhenConcurrent ==
    \A r1 \in Reqs, r2 \in Reqs :
        ( /\ r1 # r2 /\ r1 \in req[r2].overlap
          /\ Done(r1) /\ Done(r2)
          /\ RecordAlert(r1) /\ RecordAlert(r2)
          /\ Found(r1) /\ Found(r2) /\ Eligible(r1) /\ Eligible(r2)
          /\ ~HadRecord(r1) /\ ~HadRecord(r2)
          /\ req[r1].outcome \in {"none", "ok"} /\ req[r2].outcome \in {"none", "ok"} )
        => /\ Cardinality({r \in {r1, r2} : Submitted(r)}) = 1
           /\ Cardinality({r \in {r1, r2} : req[r].saved # NULL}) = 1

\* C2: a recordAlert call made when a record of the transaction already
\* exists in status confirmed or pending makes no ledger submission and
\* inserts no new record.
C2_ExistingRecordReturned ==
    \A r \in Reqs :
        (Done(r) /\ RecordAlert(r) /\ Found(r) /\ HadRecord(r))
        => (~Submitted(r) /\ req[r].saved = NULL)

\* C3: POST /blockchain/record for a transaction whose is_fraud is false is
\* refused as NotEligible: no ledger submission, no record, no success.
C3_NotEligibleRefused ==
    \A r \in Reqs :
        (Done(r) /\ req[r].kind = "record" /\ Found(r) /\ ~req[r].is_fraud)
        => (~Submitted(r) /\ req[r].saved = NULL /\ req[r].status # 201)

\* C4: a record in status confirmed or failed keeps that status in every
\* step of every operation.
C4_TerminalStatusKept ==
    [][ \A i \in DOMAIN records :
           records[i].confirmation_status \in {"confirmed", "failed"}
           => /\ i \in DOMAIN records'
              /\ records'[i].confirmation_status = records[i].confirmation_status ]_vars

\* C4 witness: a record was confirmed, a recordAlert call for the same
\* transaction arrived after that and has stored a further record.
C4_Witness ==
    \E i \in DOMAIN records, r \in Reqs :
        /\ records[i].confirmation_status = "confirmed"
        /\ Done(r) /\ req[r].existing = {"confirmed"} /\ req[r].saved # NULL
        /\ Val(req[r].saved) > i
        /\ records[i].transaction_id = req[r].tx

\* C5: every row that appears in blockchain_records is in status pending in
\* the step that creates it, whoever creates it.
C5_CreatedPending ==
    [][ \A i \in DOMAIN records' :
           i \notin DOMAIN records => records'[i].confirmation_status = "pending" ]_vars

\* C5 witness: the seeding script stored a record it had generated with
\* confirmation_status 'confirmed', and the stored row is pending.
C5_Witness ==
    /\ seed.pc = "idle" /\ seed.inserted = "ok"
    /\ seed.confirmation_status = "confirmed"
    /\ \E i \in DOMAIN records :
          /\ records[i].cardano_tx_hash = seed.hash
          /\ records[i].confirmation_status = "pending"

\* An insert of a hash that is already stored: by the seeding script, or by
\* the save step of a handler.
DuplicateInsertStep ==
    \/ /\ seed.pc = "record" /\ seed'.pc = "idle"
       /\ seed.amount > RecordAmount
       /\ seed.hash \in StoredHashes
    \/ \E r \in Reqs :
          /\ req[r].pc = "save" /\ req'[r].pc = "done"
          /\ Val(req[r].record).cardano_tx_hash \in StoredHashes

\* C6: no two records carry the same ledger transaction hash, and an insert
\* of a hash that is already stored leaves blockchain_records unchanged.
C6_HashUnique ==
    /\ [](\A i \in DOMAIN records, j \in DOMAIN records :
             records[i].cardano_tx_hash = records[j].cardano_tx_hash => i = j)
    /\ [][DuplicateInsertStep => records' = records]_vars

\* C6 witness: the seeding script tried to insert a hash that was stored
\* already; the insert failed and one row carries the hash.
C6_Witness ==
    /\ seed.pc = "idle" /\ seed.inserted = "error"
    /\ Cardinality({i \in DOMAIN records : records[i].cardano_tx_hash = seed.hash}) = 1

C8_UnavailableQueued ==
    \A r \in Reqs :
        ( /\ RecordAlert(r) /\ Done(r) /\ Eligible(r) /\ ~HadRecord(r)
          /\ req[r].outcome = "LedgerUnavailable" )
        => /\ req[r].status # 500
           /\ \E i \in DOMAIN records :
                 /\ records[i].transaction_id = req[r].tx
                 /\ records[i].confirmation_status = "pending"
                 /\ records[i].cardano_tx_hash = NULL

\* C9: a recordAlert call whose submission failed with a non-retriable
\* error leaves a record of the transaction in status failed and answers
\* with the error.
C9_RejectedRecordedFailed ==
    \A r \in Reqs :
        ( /\ RecordAlert(r) /\ Done(r) /\ Eligible(r) /\ ~HadRecord(r)
          /\ req[r].outcome \in NonRetriable )
        => /\ req[r].status = 500
           /\ \E i \in DOMAIN records :
                 /\ records[i].transaction_id = req[r].tx
                 /\ records[i].confirmation_status = "failed"

\* No handler is in flight: nothing in the program will call submit again
\* unless a new request arrives.
Quiescent == \A r \in Reqs : ~Active(r)

\* C10: when an eligible recordAlert call got LedgerUnavailable, every
\* submission for its transaction got LedgerUnavailable and no handler is
\* in flight any more, exactly RetryBudget submissions were made for the
\* transaction and a record of it is in status failed.
C10_RetryBudgetExhausted ==
    \A r \in Reqs :
        ( /\ Quiescent
          /\ RecordAlert(r) /\ Done(r) /\ Eligible(r) /\ ~HadRecord(r)
          /\ req[r].outcome = "LedgerUnavailable"
          /\ calls[req[r].tx].unavailable = calls[req[r].tx].n )
        => /\ calls[req[r].tx].n = RetryBudget
           /\ \E i \in DOMAIN records :
                 /\ records[i].transaction_id = req[r].tx
                 /\ records[i].confirmation_status = "failed"

EntriesAbout(k) ==
    Cardinality({ j \in DOMAIN batch.results : batch.results[j].item = k })
    + Cardinality({ j \in DOMAIN batch.errors : batch.errors[j].item = k })

\* C14: a batch request whose body carried an array ends with the batch
\* response (201), whatever happened to its items, and every item of the
\* array has exactly one entry, in results or in errors, under its own
\* transaction_id.
C14_BatchItemsIndependent ==
    (batch.pc = "done" /\ batch.status # 400)
    => /\ batch.status = 201
       /\ \A k \in DOMAIN batch.items : EntriesAbout(k) = 1
       /\ \A j \in DOMAIN batch.results :
             batch.results[j].transaction_id = IdOf(batch.items[batch.results[j].item])
       /\ \A j \in DOMAIN batch.errors :
             batch.errors[j].transaction_id = IdOf(batch.items[batch.errors[j].item])

\* C15: the 201 response of POST /transactions/batch carries in `processed`
\* the number of items that succeeded and in `errors` the number of items
\* that failed, two numbers that add up to the number of items sent.
C15_BatchCounts ==
    (batch.kind = "transactions-batch" /\ batch.pc = "done" /\ batch.status = 201)
    => /\ "processed" \in DOMAIN batch.body
       /\ batch.body["processed"] = Number(Len(batch.results))
       /\ "errors" \in DOMAIN batch.body
       /\ batch.body["errors"].type = "number"
       /\ batch.body["errors"].value = Len(batch.errors)
       /\ batch.body["processed"].value + batch.body["errors"].value
             = Len(batch.items)

\* C16: when the scoring process times out or exits with a non-zero code,
\* runFraudDetection resolves with the fallback (not fraud, score 0.1), the
\* handler goes on to store it and answers 201.
C16_FallbackOnUnavailable ==
    \A r \in Reqs :
        (req[r].kind = "tx" /\ req[r].oracle \in {"timeout", "exit"})
        => /\ runFraudDetection(req[r].oracle) = Some(FallbackPrediction)
           /\ req[r].pc \in {"update", "done"}
           /\ Done(r) => req[r].status = 201

\* C17: once POST /transactions has stored a fraud verdict of the scoring
\* step and nothing is in flight any more (no handler, no seeding run), the
\* transaction has a stored record whose hash is that of a ledger
\* transaction carrying its metadata.
C17_FlaggedEventuallyRecorded ==
    \A r \in Reqs :
        ( /\ req[r].kind = "tx" /\ Done(r) /\ req[r].status = 201
          /\ req[r].oracle = "fraud"
          /\ IsFraud(transactions[req[r].tx])
          /\ Quiescent /\ seed.pc = "idle" )
        => \E i \in DOMAIN records, n \in DOMAIN ledger :
              /\ records[i].transaction_id = req[r].tx
              /\ records[i].cardano_tx_hash = Some(LedgerHash(n))
              /\ ledger[n].transactionID = req[r].tx

\* C18: each transaction has at most one fraud alert in status active.
C18_OneActiveAlert ==
    \A t \in TxIds :
        Cardinality({ i \in DOMAIN alerts :
                        alerts[i].transaction_id = t
                        /\ alerts[i].status = "active" }) <= 1

\* The hash of a ledger transaction that carries metadata of transaction t:
\* what a successful submission for an alert of t returns.
SubmittedHashes(t) ==
    { Some(LedgerHash(n)) : n \in { k \in DOMAIN ledger : ledger[k].transactionID = t } }

\* C19: the ledger link of a fraud alert is null unless a submission for the
\* alert's transaction has succeeded, and then it is the hash of such a
\* submission; a step that writes the link writes it where it was null.
C19_LinkWrittenOnce ==
    /\ [](\A i \in DOMAIN alerts :
             alerts[i].cardano_tx_hash # NULL
             => alerts[i].cardano_tx_hash \in SubmittedHashes(alerts[i].transaction_id))
    /\ [][ \A i \in DOMAIN alerts :
              alerts'[i].cardano_tx_hash # alerts[i].cardano_tx_hash
              => alerts[i].cardano_tx_hash = NULL ]_vars

\* C20: no step removes a fraud alert or a blockchain record: every stored
\* row is still stored after the step, for the same transaction and, for a
\* record, with the same hash and metadata.
C20_NeverDeleted ==
    [][ /\ \A i \in DOMAIN alerts :
              /\ i \in DOMAIN alerts'
              /\ alerts'[i].transaction_id = alerts[i].transaction_id
        /\ \A i \in DOMAIN records :
              /\ i \in DOMAIN records'
              /\ records'[i].transaction_id = records[i].transaction_id
              /\ records'[i].cardano_tx_hash = records[i].cardano_tx_hash
              /\ records'[i].metadata = records[i].metadata ]_vars

\* C20 witness: alerts and records are stored, an alert has been linked, a
\* record has been confirmed, and an insert has met a stored hash.
C20_Witness ==
    /\ Len(records) >= 2 /\ Len(alerts) >= 2
    /\ \E i \in DOMAIN alerts : alerts[i].cardano_tx_hash # NULL
    /\ \E i \in DOMAIN records : records[i].confirmation_status = "confirmed"
    /\ seed.pc = "idle" /\ seed.inserted = "error"

\* C21: once POST /transactions has stored the scoring result of a
\* transaction and answered 201, no later step of any operation changes the
\* transaction's row.
C21_ImmutableOnceScored ==
    [][ \A r \in Reqs :
           (req[r].kind = "tx" /\ Done(r) /\ req[r].status = 201)
           => /\ req[r].tx \in DOMAIN transactions'
              /\ transactions'[req[r].tx] = transactions[req[r].tx] ]_vars

\* C29: the update step of PUT /transactions/:id leaves in each of is_fraud,
\* fraud_score, fraud_reason the value the request supplied, or what was
\* stored before when the request did not supply the field.
C29_PutChangesSuppliedFieldsOnly ==
    [][ \A r \in Reqs :
           (req[r].kind = "put" /\ req[r].pc = "update" /\ req'[r].pc = "done")
           => \A field \in {"is_fraud", "fraud_score", "fraud_reason"} :
                 transactions'[req[r].tx][field] =
                     IF req[r].updates[field] # NULL
                     THEN req[r].updates[field]
                     ELSE transactions[req[r].tx][field] ]_vars

\* C22: every metadata payload built for a transaction carries the flag
\* "Suspicious" exactly when the transaction is fraud for its builder: the
\* fraudPrediction a handler hands to createFraudAlertTransaction, the
\* isFraud verdict seedDatabase stores for the transaction it generated.
C22_FlagMatchesFraud ==
    [][ /\ \A r \in Reqs :
              ( /\ RecordAlert(r) /\ req[r].pc = "submit"
                /\ Len(ledger') = Len(ledger) + 1 )
              => ledger'[Len(ledger')].flag =
                     (IF Eligible(r) THEN "Suspicious" ELSE "Legitimate")
        /\ (seed.pc = "record" /\ Len(records') = Len(records) + 1)
           => (records'[Len(records')].metadata.flag = "Suspicious"
                  <=> SeedIsFraud(seed)) ]_vars

\* The handlers that have called createFraudAlertTransaction and wait for
\* the ledger's answer.
InFlight == { r \in Reqs : RecordAlert(r) /\ req[r].pc = "submit" }

\* C23: the ledger submissions in flight at one time stay below the number
\* of record and alert requests that arrive: a cap holds requests back.
C23_SubmissionsCapped == Cardinality(InFlight) < MaxReqs

\* C24: POST /blockchain/record never has a submission in flight for a
\* transaction that POST /transactions has inserted and is still scoring: it
\* does not read and submit the row between createTransaction and
\* updateTransactionFraud.
C24_NoSubmissionOfUnscored ==
    \A r \in Reqs, q \in Reqs :
        ~ ( /\ req[r].kind = "record" /\ req[r].pc = "submit"
            /\ req[q].kind = "tx" /\ req[q].pc \in {"score", "update"}
            /\ req[q].tx = req[r].tx
            /\ getTransaction(req[r].tx) = Some(NewTransactionRow) )

\* No handler is at work: the single handlers have answered or not started,
\* and so has the batch handler.
AllFinished == Quiescent /\ batch.pc \in {"idle", "done"}

\* C25: once the alert handlers have finished, with success or with an
\* error, every fraud alert that carries a ledger hash has a blockchain
\* record with the same hash and the same transaction_id.
C25_LinkedAlertHasRecord ==
    AllFinished
    => \A i \in DOMAIN alerts :
          alerts[i].cardano_tx_hash # NULL
          => \E j \in DOMAIN records :
                /\ records[j].cardano_tx_hash = alerts[i].cardano_tx_hash
                /\ records[j].transaction_id = alerts[i].transaction_id

\* C26: once a record or alert handler whose ledger submission succeeded has
\* finished, with 201 or with an error, a blockchain record holds the hash
\* of that submission.
C26_SubmissionHasRecord ==
    \A r \in Reqs :
        (RecordAlert(r) /\ Done(r) /\ req[r].outcome = "ok")
        => Val(req[r].record).cardano_tx_hash \in StoredHashes

\* C27: when POST /fraud/alert has answered with an error, the fraud_alerts
\* row the request inserted, if it inserted one, is not in the store.
C27_FailedAlertLeavesNoRow ==
    \A r \in Reqs :
        (req[r].kind = "alert" /\ Done(r) /\ req[r].status # 201)
        => \/ req[r].alert = NULL
           \/ Val(req[r].alert) \notin DOMAIN alerts

\* The POST /transactions requests for transaction t that got past the
\* validation of their body.
Posts(t) ==
    { r \in Reqs : req[r].kind = "tx" /\ req[r].tx = t /\ req[r].status # 400 }

\* C28: once the POST /transactions requests for one transaction_id have
\* all answered, the transaction is stored, exactly one of them answered 201
\* and the others answered with an error (409 or 500); the step in which a
\* request answers with an error leaves the transactions table as it was.
C28_OneRowOneSuccess ==
    /\ [](\A t \in TxIds :
             (Posts(t) # {} /\ \A r \in Posts(t) : Done(r))
             => /\ t \in DOMAIN transactions
                /\ Cardinality({ r \in Posts(t) : req[r].status = 201 }) = 1
                /\ \A r \in Posts(t) : req[r].status \in {201, 409, 500})
    /\ [][ \A r \in Reqs :
              (req'[r].kind = "tx" /\ ~Done(r) /\ req'[r].pc = "done"
                 /\ req'[r].status # 201)
              => transactions' = transactions ]_vars

\* C28 witness: two requests for the same transaction_id both passed the
\* existence check; one stored and scored the row and answered 201, the
\* insert of the other hit the UNIQUE constraint and it answered 500; the
\* row holds what the first one stored.
C28_Witness ==
    \E r1 \in Reqs, r2 \in Reqs :
        /\ r1 # r2 /\ r1 \in Posts(req[r2].tx) /\ r2 \in Posts(req[r1].tx)
        /\ Done(r1) /\ req[r1].status = 201
        /\ Done(r2) /\ req[r2].status = 500
        /\ transactions[req[r1].tx] = ScoredRow(Val(runFraudDetection(req[r1].oracle)))

\* C30: every fraud alert and every blockchain record carries the
\* transaction_id of a stored transaction.
C30_ReferencesStoredTransaction ==
    /\ \A i \in DOMAIN alerts : alerts[i].transaction_id \in DOMAIN transactions
    /\ \A i \in DOMAIN records : records[i].transaction_id \in DOMAIN transactions

\* C30 witness: the seeding script has stored an alert and a record, and a
\* POST /fraud/alert has stored an alert and a record of its own.
C30_Witness ==
    /\ seed.pc = "idle" /\ seed.inserted = "ok"
    /\ \E r \in Reqs :
          /\ req[r].kind = "alert" /\ Done(r) /\ req[r].status = 201
          /\ Val(req[r].alert) \in DOMAIN alerts
          /\ Val(req[r].saved) \in DOMAIN records
    /\ Len(alerts) >= 2 /\ Len(records) >= 2

=============================================================================
